---- MODULE Spec2Model ----
(***************************************************************************)
(* Model of scripts/s3/mixs3io/mix_object_operations.py (TestMixObjectOps): *)
(* the percentage planner (initialize_variables), the sample calculator    *)
(* (get_sample_details) and the iteration loop                             *)
(* (execute_mix_object_workload) with its write/read/delete calls.         *)
(*                                                                         *)
(* Python evaluates total_storage / 100 * pct and target / file_size in    *)
(* IEEE-754 binary64.  The model computes these as the interpreter does:   *)
(* a float is a record [m |-> bits, e |-> exponent] whose value is         *)
(* m * 2^e, m a most-significant-bit-first sequence of at most 53 bits.    *)
(* Mantissas are bit sequences because they exceed the model checker's     *)
(* integer range.                                                          *)
(***************************************************************************)
EXTENDS Integers, Sequences, FiniteSets, TLC

\* ------------------------------------------------------------------------
\* Arbitrary-size naturals as bit sequences (most significant bit first).
\* ------------------------------------------------------------------------

RECURSIVE NatToBits(_)
NatToBits(n) ==
    IF n = 0 THEN <<>> ELSE Append(NatToBits(n \div 2), n % 2)

RECURSIVE BitsToNat(_)
BitsToNat(b) ==
    IF b = <<>> THEN 0
    ELSE 2 * BitsToNat(SubSeq(b, 1, Len(b) - 1)) + b[Len(b)]

\* The recursions below halve their argument, so their depth is logarithmic.
\* A remainder or carry is bound by a quantifier over a singleton where the
\* next call consumes it, so that it is a value by then.

StripZeros(b) ==
    LET ones == {i \in 1..Len(b) : b[i] = 1}
    IN  IF ones = {} THEN <<>>
        ELSE SubSeq(b, CHOOSE i \in ones : \A j \in ones : i <= j, Len(b))

Zeros(k) ==
    SubSeq([i \in 1..k |-> 0], 1, k)

\* b + 1 on bit sequences.
IncBits(b) ==
    LET zeros == {i \in 1..Len(b) : b[i] = 0}
    IN  IF zeros = {} THEN <<1>> \o Zeros(Len(b))
        ELSE LET k == CHOOSE i \in zeros : \A j \in zeros : j <= i
             IN  SubSeq(b, 1, k - 1) \o <<1>> \o Zeros(Len(b) - k)

\* Schoolbook division of the bit sequence s by the small positive integer
\* d, entered with remainder r: quotient bits and final remainder.
RECURSIVE LongDivFrom(_, _, _)
LongDivFrom(s, d, r) ==
    IF Len(s) = 0 THEN [q |-> <<>>, r |-> r]
    ELSE IF Len(s) = 1
    THEN [q |-> <<(2 * r + s[1]) \div d>>, r |-> (2 * r + s[1]) % d]
    ELSE LET h == Len(s) \div 2
         IN  CHOOSE out \in UNION
                 { { [q |-> left.q \o right.q, r |-> right.r] :
                       right \in {LongDivFrom(SubSeq(s, h + 1, Len(s)), d, left.r)} } :
                     left \in {LongDivFrom(SubSeq(s, 1, h), d, r)} } : TRUE

\* a * 2^frac divided by d.
LongDiv(a, frac, d) ==
    LongDivFrom(a \o Zeros(frac), d, 0)

\* The bit sequence s times the small non-negative integer p plus carry:
\* the low Len(s) bits of the result and the carry out of them.
RECURSIVE MulBitsFrom(_, _, _)
MulBitsFrom(s, p, carry) ==
    IF Len(s) = 0 THEN [bits |-> <<>>, c |-> carry]
    ELSE IF Len(s) = 1
    THEN [bits |-> <<(s[1] * p + carry) % 2>>, c |-> (s[1] * p + carry) \div 2]
    ELSE LET h == Len(s) \div 2
         IN  CHOOSE out \in UNION
                 { { [bits |-> left.bits \o right.bits, c |-> left.c] :
                       left \in {MulBitsFrom(SubSeq(s, 1, h), p, right.c)} } :
                     right \in {MulBitsFrom(SubSeq(s, h + 1, Len(s)), p, carry)} } : TRUE

MulBits(b, p) ==
    LET low == MulBitsFrom(b, p, 0)
    IN  StripZeros(NatToBits(low.c) \o low.bits)

\* ------------------------------------------------------------------------
\* IEEE-754 binary64 arithmetic as CPython performs it.
\* ------------------------------------------------------------------------

MantBits == 53

FloatZero == [m |-> <<>>, e |-> 0]

\* Round the exact value q * 2^e (plus a non-zero tail when sticky) to
\* MantBits significant bits, round-half-to-even.
RoundFloat(q0, e, sticky) ==
    LET q == StripZeros(q0)
        n == Len(q)
    IN  IF n = 0 THEN FloatZero
        ELSE IF n <= MantBits THEN [m |-> q, e |-> e]
        ELSE LET mant  == SubSeq(q, 1, MantBits)
                 rnd   == q[MantBits + 1]
                 rest  == sticky \/ \E i \in (MantBits + 2)..n : q[i] = 1
                 up    == rnd = 1 /\ (rest \/ mant[MantBits] = 1)
                 m1    == IF up THEN IncBits(mant) ELSE mant
                 e1    == e + (n - MantBits)
             IN  IF Len(m1) > MantBits
                 THEN [m |-> SubSeq(m1, 1, MantBits), e |-> e1 + 1]
                 ELSE [m |-> m1, e |-> e1]

\* int / int (true division): the correctly rounded quotient.
TrueDiv(a, d) ==
    LET frac == MantBits + 2 + Len(NatToBits(d))
        qr   == LongDiv(a, frac, d)
    IN  RoundFloat(qr.q, 0 - frac, qr.r # 0)

\* float * int, the int converted exactly to a float first.
MulFloat(x, p) ==
    RoundFloat(MulBits(x.m, p), x.e, FALSE)

\* int(float) and the integer part of math.modf: truncation toward zero.
Trunc(x) ==
    IF x.e >= 0 THEN (IF x.m = <<>> THEN <<>> ELSE x.m \o Zeros(x.e))
    ELSE IF 0 - x.e >= Len(x.m) THEN <<>>
    ELSE SubSeq(x.m, 1, Len(x.m) + x.e)

\* The fractional part of math.modf is non-zero.
HasFraction(x) ==
    /\ x.e < 0
    /\ \E i \in 1..Len(x.m) : i > Len(x.m) + x.e /\ x.m[i] = 1

\* ------------------------------------------------------------------------
\* Percentage planner (initialize_variables) and sample calculator
\* (get_sample_details) as pure functions.
\* ------------------------------------------------------------------------

\* int(total_storage / 100 * percentage)
PercentOfStorage(total, percentage) ==
    BitsToNat(Trunc(MulFloat(TrueDiv(NatToBits(total), 100), percentage)))

\* "... if cls.<x>_percentage else cls.total_storage": None and 0 are both
\* falsy, the model writes 0 for either.
StorageSizeTo(total, percentage) ==
    IF percentage # 0 THEN PercentOfStorage(total, percentage) ELSE total

SizeToCleanupAllData(total, percentage) ==
    IF percentage # 0 THEN PercentOfStorage(total, percentage)
    ELSE PercentOfStorage(total, 90)

\* chunks = modf(target / file_size);
\* int(chunks[1]) + 1 if chunks[0] else int(chunks[1])      (on bit sequences)
SamplesBits(target, file_size) ==
    LET chunks == TrueDiv(target, file_size)
    IN  IF HasFraction(chunks) THEN IncBits(Trunc(chunks)) ELSE Trunc(chunks)

Samples(target, file_size) ==
    BitsToNat(SamplesBits(NatToBits(target), file_size))

\* ------------------------------------------------------------------------
\* Bounds of the model and program constants.
\* ------------------------------------------------------------------------

\* Iterations after which the model stops starting new ones.
MaxIter == 1

\* Last clock value (minutes); the clock starts at 0.
MaxNow == 2

\* src.commons.constants.MIN_DURATION in minutes, the threshold of the
\* specification's termination example.
MIN_DURATION == 5

\* timedelta(hours=int(100 * 24)), in minutes.
DefaultDuration == 144000

\* total_storage_size, *_percentage, object_size, sessions and duration given
\* to the constructor.  A percentage of 0 stands for 0 and for None, a
\* duration of 0 for a missing or zero timedelta.  object_size is an int
\* (is_dict FALSE, the value in start) or a dict with "start" and "end".
TotalStorageSizes == {10}
WritePercentages == {0, 50}
ReadPercentages == {50}
DeletePercentages == {0, 10}
CleanupPercentages == {0, 50}
ObjectSizes ==
    { [is_dict |-> FALSE, start |-> 2, end |-> 2],
      [is_dict |-> FALSE, start |-> 5, end |-> 5],
      [is_dict |-> TRUE, start |-> 1, end |-> 4] }
SessionCounts == {1, 3}
Durations == {0 - 1, 0, 6}

\* Results of run_local_cmd and S3bench.check_log_file_error for one command.
Outcomes == {"ok", "exit_nonzero", "error_marker"}

VARIABLES
    total_storage, write_percentage, read_percentage, delete_percentage,
    cleanup_percentage, object_size, sessions, finish_time,
    storage_size_to_fill, storage_size_to_read, storage_size_to_delete,
    size_to_cleanup_all_data,
    iteration, total_written_data,
    pc, file_size, write_samples, read_samples, delete_samples,
    written_data, read_data, deleted_data,
    now, start_time, bucket, result, log,
    fn_in, fn_out,
    cls, inst

config == <<total_storage, write_percentage, read_percentage, delete_percentage,
            cleanup_percentage, object_size, sessions, finish_time,
            storage_size_to_fill, storage_size_to_read, storage_size_to_delete,
            size_to_cleanup_all_data>>
plan == <<file_size, write_samples, read_samples, delete_samples>>
covered == <<written_data, read_data, deleted_data>>
fnvars == <<fn_in, fn_out>>
shared == <<cls, inst>>
vars == <<config, iteration, total_written_data, pc, plan, covered,
          now, start_time, bucket, result, log, fnvars, shared>>

CallKinds == {"write", "read", "delete"}

\* cls.object_prefix = "s3mix_object_ops_iter{}", as a sequence of characters.
object_prefix ==
    <<"s", "3", "m", "i", "x", "_", "o", "b", "j", "e", "c", "t", "_",
      "o", "p", "s", "_", "i", "t", "e", "r", "{", "}">>

\* str(n) for a natural number n.
RECURSIVE Decimal(_)
Decimal(n) ==
    LET digit == <<"0", "1", "2", "3", "4", "5", "6", "7", "8", "9">>[(n % 10) + 1]
    IN  IF n < 10 THEN <<digit>> ELSE Decimal(n \div 10) \o <<digit>>

\* template.format(n): the first "{}" of the template replaced by str(n).
Format(template, n) ==
    LET fields == {k \in 1..(Len(template) - 1) :
                      template[k] = "{" /\ template[k + 1] = "}"}
    IN  IF fields = {} THEN template
        ELSE LET k == CHOOSE f \in fields : \A g \in fields : f <= g
             IN  SubSeq(template, 1, k - 1) \o Decimal(n)
                     \o SubSeq(template, k + 2, Len(template))

\* The -objectNamePrefix of the commands of an iteration (s3bench_cmd).
ObjectNamePrefixOfFirstIteration(iter) ==
    Format(object_prefix, 0)

ObjectNamePrefix(iter) ==
    Format(object_prefix, iter)

\* The object_prefix argument of delete_s3_objects in the cleanup.
CleanupPrefix ==
    object_prefix

\* One entry of the history of the run: a benchmark command issued
\* (write, read, delete), a sample check (plan), a cleanup check or a
\* deadline check.  prefix is the object-name prefix handed to the command
\* or to delete_s3_objects.
Event(kind, size, samples, cov, outcome, before, after) ==
    [kind |-> kind, iter |-> iteration, size |-> size, samples |-> samples,
     covered |-> cov, outcome |-> outcome, before |-> before, after |-> after,
     prefix |-> IF kind \in CallKinds THEN ObjectNamePrefix(iteration)
                ELSE IF kind = "cleanup" /\ outcome = "purged" THEN CleanupPrefix
                ELSE <<>>]

\* ------------------------------------------------------------------------
\* __init__ and initialize_variables.
\* ------------------------------------------------------------------------

\* The drivers of one process.
Drivers == {1, 2}

\* The attributes of the class TestMixObjectOps before any construction.
NoClassAttributes ==
    [bucket_name |-> 0, sessions |-> 0, object_size |-> 0,
     storage_size_to_fill |-> 0, storage_size_to_read |-> 0,
     storage_size_to_delete |-> 0, size_to_cleanup_all_data |-> 0,
     iteration |-> 0, total_written_data |-> 0]

\* A driver that is not constructed yet.  given is what its constructor was
\* called with and the bucket name its construction made; has_iteration and
\* has_ledger tell whether the instance has its own attribute iteration and
\* total_written_data, or reads the attribute of the class.
NoDriver ==
    [pc |-> "absent",
     given |-> NoClassAttributes,
     finish_time |-> 0,
     has_iteration |-> FALSE, iteration |-> 0,
     has_ledger |-> FALSE, total_written_data |-> 0,
     file_size |-> 0, write_samples |-> 0, read_samples |-> 0, delete_samples |-> 0,
     written_data |-> 0, read_data |-> 0, deleted_data |-> 0,
     created |-> 0, deleted |-> 0, result |-> "running"]

\* The run of Spec is the one driver of its process.
NoDrivers ==
    /\ cls = NoClassAttributes
    /\ inst = [i \in Drivers |-> NoDriver]

Init ==
    /\ NoDrivers
    /\ total_storage \in TotalStorageSizes
    /\ write_percentage \in WritePercentages
    /\ read_percentage \in ReadPercentages
    /\ delete_percentage \in DeletePercentages
    /\ cleanup_percentage \in CleanupPercentages
    /\ object_size \in ObjectSizes
    /\ sessions \in SessionCounts
    /\ now = 0
    /\ \E duration \in Durations :
         finish_time = now + (IF duration # 0 THEN duration ELSE DefaultDuration)
    /\ storage_size_to_fill = StorageSizeTo(total_storage, write_percentage)
    /\ storage_size_to_read = StorageSizeTo(total_storage, read_percentage)
    /\ storage_size_to_delete = StorageSizeTo(total_storage, delete_percentage)
    /\ size_to_cleanup_all_data = SizeToCleanupAllData(total_storage, cleanup_percentage)
    /\ iteration = 0
    /\ total_written_data = 0
    /\ pc = "init"
    /\ file_size = 0
    /\ write_samples = 0
    /\ read_samples = 0
    /\ delete_samples = 0
    /\ written_data = 0
    /\ read_data = 0
    /\ deleted_data = 0
    /\ start_time = 0
    /\ bucket = "none"
    /\ result = "running"
    /\ log = <<>>
    /\ fn_in = [total |-> 0, pct |-> 0]
    /\ fn_out = [class |-> "none", target |-> 0]

\* ------------------------------------------------------------------------
\* execute_mix_object_workload.
\* ------------------------------------------------------------------------

\* The wall clock advances.
Tick ==
    /\ now < MaxNow
    /\ now' = now + 1
    /\ UNCHANGED <<config, iteration, total_written_data, pc, plan, covered,
                   start_time, bucket, result, log, fnvars, shared>>

\* self.create_s3_bucket(self.bucket_name)
CreateBucket ==
    /\ pc = "init"
    /\ pc' = "iter_start"
    /\ bucket' = "created"
    /\ start_time' = now
    /\ UNCHANGED <<config, iteration, total_written_data, plan, covered,
                   now, result, log, fnvars, shared>>

\* random.randrange(start, end) for a dict, the configured int otherwise.
FileSizes ==
    IF object_size.is_dict THEN object_size.start .. (object_size.end - 1)
    ELSE {object_size.start}

\* The three asserts of get_sample_details.
SamplesOkNoDelete(w, r, d, s) ==
    w >= s /\ r >= s

SamplesOkNoRead(w, r, d, s) ==
    w >= s /\ d >= s

SamplesOk(w, r, d, s) ==
    w >= s /\ r >= s /\ d >= s

\* "except Exception as err: ... assert False": the run ends in a failure.
Abort ==
    /\ pc' = "done"
    /\ result' = "failed"

\* The deadline looked at before the object size is drawn.
StartIterationDeadlineFirst ==
    /\ pc = "iter_start"
    /\ IF finish_time - now < MIN_DURATION
       THEN /\ bucket' = "deleted"
            /\ pc' = "done"
            /\ result' = "success"
            /\ UNCHANGED <<plan, log>>
       ELSE /\ bucket' = bucket
            /\ \E fs \in FileSizes :
                 LET w == Samples(storage_size_to_fill, fs)
                     r == Samples(storage_size_to_read, fs)
                     d == Samples(storage_size_to_delete, fs)
                 IN  /\ file_size' = fs
                     /\ write_samples' = w
                     /\ read_samples' = r
                     /\ delete_samples' = d
                     /\ IF w >= sessions /\ r >= sessions /\ d >= sessions
                        THEN /\ pc' = "fill"
                             /\ result' = result
                             /\ log' = Append(log, Event("plan", fs, <<w, r, d>>, 0, "ok",
                                                 total_written_data, total_written_data))
                        ELSE /\ pc' = "done"
                             /\ result' = "failed"
                             /\ log' = Append(log, Event("plan", fs, <<w, r, d>>, 0,
                                                 "config_error", total_written_data,
                                                 total_written_data))
    /\ written_data' = 0
    /\ UNCHANGED <<config, iteration, total_written_data, read_data, deleted_data,
                   now, start_time, fnvars, shared>>

\* Top of the while True loop: the object size of the iteration and
\* get_sample_details(file_size).
StartIteration ==
    /\ pc = "iter_start"
    /\ \E fs \in FileSizes :
         LET w == Samples(storage_size_to_fill, fs)
             r == Samples(storage_size_to_read, fs)
             d == Samples(storage_size_to_delete, fs)
         IN  /\ file_size' = fs
             /\ write_samples' = w
             /\ read_samples' = r
             /\ delete_samples' = d
             /\ IF SamplesOk(w, r, d, sessions)
                THEN /\ pc' = "fill"
                     /\ result' = result
                     /\ log' = Append(log, Event("plan", fs, <<w, r, d>>, 0, "ok",
                                                 total_written_data, total_written_data))
                ELSE /\ Abort
                     /\ log' = Append(log, Event("plan", fs, <<w, r, d>>, 0, "config_error",
                                                 total_written_data, total_written_data))
    /\ written_data' = 0
    /\ UNCHANGED <<config, iteration, total_written_data, read_data, deleted_data,
                   now, start_time, bucket, fnvars, shared>>

\* The condition of the three while loops.
LoopContinuesStrict(target, done) ==
    target > done

LoopContinues(target, done) ==
    target >= done

\* execute_validate_run raises on a failed command or a log with errors.
CallFailedExitOnly(outcome) ==
    outcome = "exit_nonzero"

CallFailed(outcome) ==
    outcome # "ok"

\* self.write_data(file_size, write_samples); written_data += ...
WriteCall ==
    /\ pc = "fill"
    /\ LoopContinues(storage_size_to_fill, written_data)
    /\ \E outcome \in Outcomes :
         IF CallFailed(outcome)
         THEN /\ Abort
              /\ log' = Append(log, Event("write", file_size, write_samples, written_data,
                                          outcome, total_written_data, total_written_data))
              /\ UNCHANGED <<total_written_data, written_data>>
         ELSE /\ total_written_data' = total_written_data + file_size * write_samples
              /\ written_data' = written_data + write_samples * file_size
              /\ log' = Append(log, Event("write", file_size, write_samples, written_data,
                                          outcome, total_written_data,
                                          total_written_data + file_size * write_samples))
              /\ UNCHANGED <<pc, result>>
    /\ UNCHANGED <<config, iteration, plan, read_data, deleted_data,
                   now, start_time, bucket, fnvars, shared>>

\* The write loop ends; read_data = 0.
FillDoneSkipsRead ==
    /\ pc = "fill"
    /\ ~LoopContinues(storage_size_to_fill, written_data)
    /\ pc' = "drain"
    /\ read_data' = 0
    /\ UNCHANGED <<config, iteration, total_written_data, plan, written_data,
                   deleted_data, now, start_time, bucket, result, log, fnvars, shared>>

FillDone ==
    /\ pc = "fill"
    /\ ~LoopContinues(storage_size_to_fill, written_data)
    /\ pc' = "read"
    /\ read_data' = 0
    /\ UNCHANGED <<config, iteration, total_written_data, plan, written_data,
                   deleted_data, now, start_time, bucket, result, log, fnvars, shared>>

\* self.read_data(file_size, read_samples, validate=True); read_data += ...
ReadCall ==
    /\ pc = "read"
    /\ LoopContinues(storage_size_to_read, read_data)
    /\ \E outcome \in Outcomes :
         /\ log' = Append(log, Event("read", file_size, read_samples, read_data,
                                     outcome, total_written_data, total_written_data))
         /\ IF CallFailed(outcome)
            THEN /\ Abort
                 /\ UNCHANGED read_data
            ELSE /\ read_data' = read_data + read_samples * file_size
                 /\ UNCHANGED <<pc, result>>
    /\ UNCHANGED <<config, iteration, total_written_data, plan, written_data,
                   deleted_data, now, start_time, bucket, fnvars, shared>>

\* The read loop ends; deleted_data = 0.
ReadDone ==
    /\ pc = "read"
    /\ ~LoopContinues(storage_size_to_read, read_data)
    /\ pc' = "drain"
    /\ deleted_data' = 0
    /\ UNCHANGED <<config, iteration, total_written_data, plan, written_data,
                   read_data, now, start_time, bucket, result, log, fnvars, shared>>

\* self.delete_data(file_size, delete_samples); deleted_data += ...
\* delete_data subtracts from total_written_data before it runs the command.
DeleteCallClamped ==
    /\ pc = "drain"
    /\ LoopContinues(storage_size_to_delete, deleted_data)
    /\ LET lowered == total_written_data - file_size * delete_samples
           clamped == IF lowered < 0 THEN 0 ELSE lowered
       IN  /\ total_written_data' = clamped
           /\ \E outcome \in Outcomes :
                /\ log' = Append(log, Event("delete", file_size, delete_samples,
                                            deleted_data, outcome, total_written_data,
                                            clamped))
                /\ IF CallFailed(outcome)
                   THEN /\ Abort
                        /\ UNCHANGED deleted_data
                   ELSE /\ deleted_data' = deleted_data + file_size * delete_samples
                        /\ UNCHANGED <<pc, result>>
    /\ UNCHANGED <<config, iteration, plan, written_data, read_data,
                   now, start_time, bucket, fnvars, shared>>

DeleteCall ==
    /\ pc = "drain"
    /\ LoopContinues(storage_size_to_delete, deleted_data)
    /\ total_written_data' = total_written_data - file_size * delete_samples
    /\ \E outcome \in Outcomes :
         /\ log' = Append(log, Event("delete", file_size, delete_samples, deleted_data,
                                     outcome, total_written_data,
                                     total_written_data - file_size * delete_samples))
         /\ IF CallFailed(outcome)
            THEN /\ Abort
                 /\ UNCHANGED deleted_data
            ELSE /\ deleted_data' = deleted_data + file_size * delete_samples
                 /\ UNCHANGED <<pc, result>>
    /\ UNCHANGED <<config, iteration, plan, written_data, read_data,
                   now, start_time, bucket, fnvars, shared>>

\* The delete loop ends.
DrainDone ==
    /\ pc = "drain"
    /\ ~LoopContinues(storage_size_to_delete, deleted_data)
    /\ pc' = "cleanup"
    /\ UNCHANGED <<config, iteration, total_written_data, plan, covered,
                   now, start_time, bucket, result, log, fnvars, shared>>

\* if self.total_written_data >= self.size_to_cleanup_all_data
CleanupDueStrict(ledger, limit) ==
    ledger > limit

CleanupDue(ledger, limit) ==
    ledger >= limit

\* self.total_written_data *= 0
LedgerKept(ledger) ==
    ledger

LedgerAfterCleanup(ledger) ==
    ledger * 0

\* The cleanup check after the delete loop: delete_s3_objects and the reset
\* of total_written_data.
CleanupCheck ==
    /\ pc = "cleanup"
    /\ pc' = "deadline"
    /\ IF CleanupDue(total_written_data, size_to_cleanup_all_data)
       THEN /\ total_written_data' = LedgerAfterCleanup(total_written_data)
            /\ log' = Append(log, Event("cleanup", file_size, 0, 0, "purged",
                                        total_written_data,
                                        LedgerAfterCleanup(total_written_data)))
       ELSE /\ UNCHANGED total_written_data
            /\ log' = Append(log, Event("cleanup", file_size, 0, 0, "skipped",
                                        total_written_data, total_written_data))
    /\ UNCHANGED <<config, iteration, plan, covered, now, start_time, bucket,
                   result, fnvars, shared>>

\* (self.finish_time - datetime.now()).total_seconds() < MIN_DURATION
DeadlineReachedInclusive(finish, clock) ==
    finish - clock <= MIN_DURATION

DeadlineReachedWhenPassed(finish, clock) ==
    finish - clock < 0

DeadlineReached(finish, clock) ==
    finish - clock < MIN_DURATION

\* The deadline check that ends every iteration.
DeadlineCheckDeletesEachTime ==
    /\ pc = "deadline"
    /\ bucket' = "deleted"
    /\ IF DeadlineReached(finish_time, now)
       THEN /\ pc' = "done"
            /\ result' = "success"
            /\ log' = Append(log, Event("deadline", file_size, 0, 0, "terminate",
                                        total_written_data, total_written_data))
            /\ UNCHANGED iteration
       ELSE /\ iteration < MaxIter
            /\ iteration' = iteration + 1
            /\ pc' = "iter_start"
            /\ log' = Append(log, Event("deadline", file_size, 0, 0, "continue",
                                        total_written_data, total_written_data))
            /\ UNCHANGED result
    /\ UNCHANGED <<config, total_written_data, plan, covered, now, start_time, fnvars, shared>>

DeadlineCheck ==
    /\ pc = "deadline"
    /\ IF DeadlineReached(finish_time, now)
       THEN /\ bucket' = "deleted"
            /\ pc' = "done"
            /\ result' = "success"
            /\ log' = Append(log, Event("deadline", file_size, 0, 0, "terminate",
                                        total_written_data, total_written_data))
            /\ UNCHANGED iteration
       ELSE /\ iteration < MaxIter
            /\ iteration' = iteration + 1
            /\ pc' = "iter_start"
            /\ log' = Append(log, Event("deadline", file_size, 0, 0, "continue",
                                        total_written_data, total_written_data))
            /\ UNCHANGED <<bucket, result>>
    /\ UNCHANGED <<config, total_written_data, plan, covered, now, start_time, fnvars, shared>>

Next ==
    \/ Tick
    \/ CreateBucket
    \/ StartIteration
    \/ WriteCall
    \/ FillDone
    \/ ReadCall
    \/ ReadDone
    \/ DeleteCall
    \/ DrainDone
    \/ CleanupCheck
    \/ DeadlineCheck

Spec == Init /\ [][Next]_vars

\* The steps of execute_mix_object_workload after the sample check of an
\* iteration; the method runs to its return or to its failing assert without
\* waiting for anything but its own commands.
CommandStep ==
    \/ CreateBucket
    \/ WriteCall
    \/ FillDone
    \/ ReadCall
    \/ ReadDone
    \/ DeleteCall
    \/ DrainDone
    \/ CleanupCheck
    \/ DeadlineCheck

\* The run keeps taking steps and the clock keeps advancing.  StartIteration
\* is enabled exactly when pc = "iter_start" and leaves that place, so weak
\* fairness of StartIteration is []<>(pc # "iter_start").
FairSpec ==
    /\ Spec
    /\ WF_vars(Tick)
    /\ WF_vars(CommandStep)
    /\ []<>(pc # "iter_start")

\* ------------------------------------------------------------------------
\* The planner and the sample calculator on their own, over ranges of
\* inputs.  The workload variables are parked.
\* ------------------------------------------------------------------------

\* Largest total_storage of SpecPlan.
MaxTotal == 30

\* Largest small byte target and largest object size of SpecSamples.
MaxTarget == 40
MaxSize == 6

\* Byte targets beyond 2^53: 3 * 2^53 + 1 and 2^54 + 2^53 + 3.
BigTargets ==
    { <<1, 1>> \o Zeros(52) \o <<1>>,
      <<1, 1>> \o Zeros(51) \o <<1, 1>> }

SampleTargets ==
    {NatToBits(n) : n \in 1..MaxTarget} \cup BigTargets

Parked ==
    /\ total_storage = 0
    /\ write_percentage = 0
    /\ read_percentage = 0
    /\ delete_percentage = 0
    /\ cleanup_percentage = 0
    /\ object_size = [is_dict |-> FALSE, start |-> 0, end |-> 0]
    /\ sessions = 0
    /\ finish_time = 0
    /\ storage_size_to_fill = 0
    /\ storage_size_to_read = 0
    /\ storage_size_to_delete = 0
    /\ size_to_cleanup_all_data = 0
    /\ iteration = 0
    /\ total_written_data = 0
    /\ pc = "parked"
    /\ file_size = 0
    /\ write_samples = 0
    /\ read_samples = 0
    /\ delete_samples = 0
    /\ written_data = 0
    /\ read_data = 0
    /\ deleted_data = 0
    /\ now = 0
    /\ start_time = 0
    /\ bucket = "none"
    /\ result = "running"
    /\ log = <<>>

workload == <<config, iteration, total_written_data, pc, plan, covered,
              now, start_time, bucket, result, log>>

InitPlan ==
    /\ Parked
    /\ NoDrivers
    /\ fn_in \in [total : 1..MaxTotal, pct : 0..100]
    /\ fn_out = [class |-> "none", target |-> 0]

\* cls.storage_size_to_fill = ...
PlanWrite ==
    /\ fn_out.class = "none"
    /\ fn_out' = [class |-> "write", target |-> StorageSizeTo(fn_in.total, fn_in.pct)]
    /\ UNCHANGED <<workload, shared, fn_in>>

\* cls.storage_size_to_read = ...
PlanRead ==
    /\ fn_out.class = "none"
    /\ fn_out' = [class |-> "read", target |-> StorageSizeTo(fn_in.total, fn_in.pct)]
    /\ UNCHANGED <<workload, shared, fn_in>>

\* cls.storage_size_to_delete = ...
PlanDelete ==
    /\ fn_out.class = "none"
    /\ fn_out' = [class |-> "delete", target |-> StorageSizeTo(fn_in.total, fn_in.pct)]
    /\ UNCHANGED <<workload, shared, fn_in>>

\* cls.size_to_cleanup_all_data = ...
PlanCleanup ==
    /\ fn_out.class = "none"
    /\ fn_out' = [class |-> "cleanup",
                  target |-> SizeToCleanupAllData(fn_in.total, fn_in.pct)]
    /\ UNCHANGED <<workload, shared, fn_in>>

NextPlan ==
    \/ PlanWrite
    \/ PlanRead
    \/ PlanDelete
    \/ PlanCleanup

SpecPlan == InitPlan /\ [][NextPlan]_vars

InitSamples ==
    /\ Parked
    /\ NoDrivers
    /\ fn_in \in [target : SampleTargets, size : 1..MaxSize]
    /\ fn_out = [class |-> "none", samples |-> <<>>]

\* w_chunks = modf(self.storage_size_to_fill / file_size); write_samples = ...
WriteSamples ==
    /\ fn_out.class = "none"
    /\ fn_out' = [class |-> "write", samples |-> SamplesBits(fn_in.target, fn_in.size)]
    /\ UNCHANGED <<workload, shared, fn_in>>

\* r_chunks = modf(self.storage_size_to_read / file_size); read_samples = ...
ReadSamples ==
    /\ fn_out.class = "none"
    /\ fn_out' = [class |-> "read", samples |-> SamplesBits(fn_in.target, fn_in.size)]
    /\ UNCHANGED <<workload, shared, fn_in>>

\* d_chunks = modf(self.storage_size_to_delete / file_size); delete_samples = ...
DeleteSamples ==
    /\ fn_out.class = "none"
    /\ fn_out' = [class |-> "delete", samples |-> SamplesBits(fn_in.target, fn_in.size)]
    /\ UNCHANGED <<workload, shared, fn_in>>

NextSamples ==
    \/ WriteSamples
    \/ ReadSamples
    \/ DeleteSamples

SpecSamples == InitSamples /\ [][NextSamples]_vars

\* ------------------------------------------------------------------------
\* Two drivers constructed and run in one process, their steps interleaved
\* at the commands.  initialize_variables is a classmethod: it assigns to
\* attributes of the class, which every instance reads unless it has an
\* attribute of its own by that name.  Every command succeeds here.
\* ------------------------------------------------------------------------

\* The keyword arguments the drivers are constructed with.
DriverConfigs ==
    { [total |-> 10, write |-> 50, read |-> 50, delete |-> 10, cleanup |-> 50,
       object_size |-> 2, sessions |-> 1, duration |-> 6],
      [total |-> 10, write |-> 0, read |-> 50, delete |-> 0, cleanup |-> 0,
       object_size |-> 5, sessions |-> 2, duration |-> 0 - 1] }

\* The attributes initialize_variables(**kwargs) assigns; name stands for
\* f"s3mix-bucket-{perf_counter_ns()}".
ClassAttributes(kw, name) ==
    [bucket_name |-> name, sessions |-> kw.sessions, object_size |-> kw.object_size,
     storage_size_to_fill |-> StorageSizeTo(kw.total, kw.write),
     storage_size_to_read |-> StorageSizeTo(kw.total, kw.read),
     storage_size_to_delete |-> StorageSizeTo(kw.total, kw.delete),
     size_to_cleanup_all_data |-> SizeToCleanupAllData(kw.total, kw.cleanup),
     iteration |-> 0, total_written_data |-> 0]

\* self.iteration and self.total_written_data as the driver i reads them.
IterationOf(i) ==
    IF inst[i].has_iteration THEN inst[i].iteration ELSE cls.iteration

LedgerOf(i) ==
    IF inst[i].has_ledger THEN inst[i].total_written_data ELSE cls.total_written_data

\* TestMixObjectOps(...): __init__ and initialize_variables.
Construct(i) ==
    /\ inst[i].pc = "absent"
    /\ \E kw \in DriverConfigs :
         LET name == 1 + Cardinality({j \in Drivers : inst[j].pc # "absent"})
             attrs == ClassAttributes(kw, name)
         IN  /\ cls' = attrs
             /\ inst' = [inst EXCEPT ![i] =
                    [NoDriver EXCEPT !.pc = "init", !.given = attrs,
                                     !.finish_time =
                                         now + (IF kw.duration # 0 THEN kw.duration
                                                ELSE DefaultDuration)]]
    /\ UNCHANGED <<workload, fnvars>>

\* self.create_s3_bucket(self.bucket_name)
DriverCreateBucket(i) ==
    /\ inst[i].pc = "init"
    /\ inst' = [inst EXCEPT ![i].pc = "iter_start", ![i].created = cls.bucket_name]
    /\ UNCHANGED <<workload, fnvars, cls>>

\* The object size of the iteration and get_sample_details(file_size).
DriverStartIteration(i) ==
    /\ inst[i].pc = "iter_start"
    /\ LET fs == cls.object_size
           w == Samples(cls.storage_size_to_fill, fs)
           r == Samples(cls.storage_size_to_read, fs)
           d == Samples(cls.storage_size_to_delete, fs)
           passed == SamplesOk(w, r, d, cls.sessions)
       IN  inst' = [inst EXCEPT ![i].file_size = fs,
                                ![i].write_samples = w,
                                ![i].read_samples = r,
                                ![i].delete_samples = d,
                                ![i].written_data = 0,
                                ![i].pc = IF passed THEN "fill" ELSE "done",
                                ![i].result = IF passed THEN @ ELSE "failed"]
    /\ UNCHANGED <<workload, fnvars, cls>>

\* The write loop: write_data adds to self.total_written_data.
DriverWrite(i) ==
    /\ inst[i].pc = "fill"
    /\ LET bytes == inst[i].file_size * inst[i].write_samples
       IN  IF LoopContinues(cls.storage_size_to_fill, inst[i].written_data)
           THEN inst' = [inst EXCEPT ![i].has_ledger = TRUE,
                                     ![i].total_written_data = LedgerOf(i) + bytes,
                                     ![i].written_data = @ + bytes]
           ELSE inst' = [inst EXCEPT ![i].pc = "read", ![i].read_data = 0]
    /\ UNCHANGED <<workload, fnvars, cls>>

\* The read loop.
DriverRead(i) ==
    /\ inst[i].pc = "read"
    /\ IF LoopContinues(cls.storage_size_to_read, inst[i].read_data)
       THEN inst' = [inst EXCEPT ![i].read_data =
                                    @ + inst[i].read_samples * inst[i].file_size]
       ELSE inst' = [inst EXCEPT ![i].pc = "drain", ![i].deleted_data = 0]
    /\ UNCHANGED <<workload, fnvars, cls>>

\* The delete loop: delete_data subtracts from self.total_written_data.
DriverDelete(i) ==
    /\ inst[i].pc = "drain"
    /\ LET bytes == inst[i].file_size * inst[i].delete_samples
       IN  IF LoopContinues(cls.storage_size_to_delete, inst[i].deleted_data)
           THEN inst' = [inst EXCEPT ![i].has_ledger = TRUE,
                                     ![i].total_written_data = LedgerOf(i) - bytes,
                                     ![i].deleted_data = @ + bytes]
           ELSE inst' = [inst EXCEPT ![i].pc = "cleanup"]
    /\ UNCHANGED <<workload, fnvars, cls>>

\* The cleanup check: self.total_written_data *= 0.
DriverCleanupCheck(i) ==
    /\ inst[i].pc = "cleanup"
    /\ IF CleanupDue(LedgerOf(i), cls.size_to_cleanup_all_data)
       THEN inst' = [inst EXCEPT ![i].pc = "deadline",
                                 ![i].has_ledger = TRUE,
                                 ![i].total_written_data = LedgerAfterCleanup(LedgerOf(i))]
       ELSE inst' = [inst EXCEPT ![i].pc = "deadline"]
    /\ UNCHANGED <<workload, fnvars, cls>>

\* The deadline check: delete_s3_bucket(self.bucket_name, force=True) and
\* return, or self.iteration += 1.
DriverDeadlineCheck(i) ==
    /\ inst[i].pc = "deadline"
    /\ IF DeadlineReached(inst[i].finish_time, now)
       THEN inst' = [inst EXCEPT ![i].pc = "done",
                                 ![i].deleted = cls.bucket_name,
                                 ![i].result = "success"]
       ELSE /\ IterationOf(i) < MaxIter
            /\ inst' = [inst EXCEPT ![i].pc = "iter_start",
                                    ![i].has_iteration = TRUE,
                                    ![i].iteration = IterationOf(i) + 1]
    /\ UNCHANGED <<workload, fnvars, cls>>

InitDrivers ==
    /\ Parked
    /\ NoDrivers
    /\ fn_in = [total |-> 0, pct |-> 0]
    /\ fn_out = [class |-> "none", target |-> 0]

NextDrivers ==
    \/ Tick
    \/ \E i \in Drivers :
          \/ Construct(i)
          \/ DriverCreateBucket(i)
          \/ DriverStartIteration(i)
          \/ DriverWrite(i)
          \/ DriverRead(i)
          \/ DriverDelete(i)
          \/ DriverCleanupCheck(i)
          \/ DriverDeadlineCheck(i)

SpecDrivers == InitDrivers /\ [][NextDrivers]_vars

\* ------------------------------------------------------------------------
\* Properties.
\* ------------------------------------------------------------------------

IsCall(e) ==
    e.kind \in CallKinds

TargetOf(kind) ==
    CASE kind = "write" -> storage_size_to_fill
      [] kind = "read" -> storage_size_to_read
      [] kind = "delete" -> storage_size_to_delete

\* C1: in each sub-loop no command of the class is issued once the bytes
\* covered in that sub-loop have reached or exceeded the byte target of the
\* class, in particular not when they equal the target.
C1_NoCallOnceTargetReached ==
    \A i \in DOMAIN log :
        IsCall(log[i]) => log[i].covered < TargetOf(log[i].kind)

\* The ledger reached the cleanup target at some point of the iteration
\* whose cleanup check is the event i.
PeakBefore(i) ==
    \E j \in 1..(i - 1) :
        /\ log[j].iter = log[i].iter
        /\ \/ log[j].before >= size_to_cleanup_all_data
           \/ log[j].after >= size_to_cleanup_all_data

C3_CleanupCheckStep ==
    [][ (pc = "cleanup" /\ pc' # "cleanup") =>
          /\ Len(log') = Len(log) + 1
          /\ log'[Len(log')].kind = "cleanup"
          /\ IF total_written_data >= size_to_cleanup_all_data
             THEN /\ log'[Len(log')].outcome = "purged"
                  /\ total_written_data' = 0
             ELSE /\ log'[Len(log')].outcome = "skipped"
                  /\ total_written_data' = total_written_data ]_vars

C3_Witness ==
    /\ pc = "deadline"
    /\ log[Len(log)].kind = "cleanup"
    /\ log[Len(log)].outcome = "purged"
    /\ log[Len(log)].before = size_to_cleanup_all_data
    /\ total_written_data = 0

\* Some sample count computed by the sample check i is below the sessions.
ShortOfSessions(i) ==
    \E k \in 1..3 : log[i].samples[k] < sessions

\* C4 as stated: a run in which a computed sample count is below the session
\* count fails with a configuration error before any benchmark command of
\* the run, also with a randomized object size.
C4_ConfigErrorBeforeAnyCall ==
    \A i \in DOMAIN log :
        (log[i].kind = "plan" /\ ShortOfSessions(i)) =>
            /\ log[i].outcome = "config_error"
            /\ result = "failed"
            /\ \A j \in DOMAIN log : ~IsCall(log[j])

\* C4 amended: a sample count below the session count makes the run fail
\* with a configuration error before any benchmark command of the iteration
\* that computed it; with a fixed object size that is before any command of
\* the run, with a randomized object size earlier iterations may have issued
\* commands.
C4_ConfigErrorBeforeIterationCalls ==
    \A i \in DOMAIN log :
        (log[i].kind = "plan" /\ ShortOfSessions(i)) =>
            /\ log[i].outcome = "config_error"
            /\ i = Len(log)
            /\ pc = "done"
            /\ result = "failed"
            /\ \A j \in DOMAIN log : IsCall(log[j]) => log[j].iter # log[i].iter
            /\ ~object_size.is_dict => \A j \in DOMAIN log : ~IsCall(log[j])

C4_Witness ==
    \E i \in DOMAIN log :
        /\ log[i].kind = "plan"
        /\ log[i].outcome = "config_error"
        /\ log[i].iter = 1
        /\ \E j \in 1..(i - 1) : IsCall(log[j])

\* The position of a class in the result of get_sample_details.
ClassIndex(kind) ==
    CASE kind = "write" -> 1
      [] kind = "read" -> 2
      [] kind = "delete" -> 3

\* C5: every benchmark command carries a sample count of at least the
\* session count, and a sample check that found all three counts of the
\* iteration sufficient precedes the first command of the iteration.
C5_SamplesAtLeastSessions ==
    \A i \in DOMAIN log :
        IsCall(log[i]) =>
            /\ log[i].samples >= sessions
            /\ \E j \in 1..(i - 1) :
                  /\ log[j].kind = "plan"
                  /\ log[j].iter = log[i].iter
                  /\ log[j].outcome = "ok"
                  /\ \A k \in 1..3 : log[j].samples[k] >= sessions
                  /\ log[j].samples[ClassIndex(log[i].kind)] = log[i].samples
                  /\ \A k \in 1..(j - 1) : log[k].iter < log[i].iter

C5_Witness ==
    /\ sessions = 3
    /\ \E i \in DOMAIN log : log[i].kind = "read" /\ log[i].samples = 3 /\ log[i].iter = 1

\* C8: a deadline check with deadline - now below the threshold force-deletes
\* the bucket and ends the run with success, after which no iteration and no
\* command is started; any other deadline check adds exactly one to the
\* iteration counter and goes back to the top of the loop.
C8_DeadlineCheckStep ==
    [][ /\ (pc = "deadline" /\ pc' # "deadline") =>
             IF finish_time - now < MIN_DURATION
             THEN /\ bucket' = "deleted"
                  /\ result' = "success"
                  /\ pc' = "done"
                  /\ iteration' = iteration
             ELSE /\ iteration' = iteration + 1
                  /\ pc' = "iter_start"
                  /\ bucket' = bucket
                  /\ result' = result
        /\ pc = "done" =>
             /\ pc' = "done"
             /\ log' = log
             /\ iteration' = iteration
             /\ result' = result
             /\ bucket' = bucket ]_vars

C8_Witness ==
    /\ pc = "done"
    /\ result = "success"
    /\ bucket = "deleted"
    /\ iteration = 1
    /\ now > finish_time - MIN_DURATION

\* The run was started after its deadline.
PassedAtStart ==
    pc # "init" /\ finish_time < start_time

NoCallFailed ==
    \A i \in DOMAIN log : IsCall(log[i]) => log[i].outcome = "ok"

KindsOfLog ==
    {log[i].kind : i \in DOMAIN log}

\* The history is one full iteration 0: the sample check, write commands,
\* read commands, delete commands, the cleanup check, the final deadline check.
OneFullIteration ==
    /\ Len(log) >= 6
    /\ \A i \in DOMAIN log : log[i].iter = 0
    /\ log[1].kind = "plan"
    /\ log[Len(log) - 1].kind = "cleanup"
    /\ log[Len(log)].kind = "deadline"
    /\ log[Len(log)].outcome = "terminate"
    /\ \A i \in 2..(Len(log) - 2) : IsCall(log[i])
    /\ CallKinds \subseteq KindsOfLog
    /\ \A i, j \in 2..(Len(log) - 2) :
          i < j => ClassIndex(log[i].kind) <= ClassIndex(log[j].kind)

\* C9 as stated: started after the deadline and with every command
\* succeeding, the run executes exactly one full iteration, numbered 0,
\* then deletes the bucket and returns success.
C9_OneIterationWhenPassed ==
    PassedAtStart =>
        /\ iteration = 0
        /\ (pc = "done" /\ NoCallFailed) =>
              (result = "success" /\ bucket = "deleted" /\ OneFullIteration)

\* C9 amended: the deadline is never evaluated before FILL; started after
\* the deadline, the run never leaves iteration 0, and when the sample check
\* of iteration 0 passes and every command succeeds it executes exactly one
\* full iteration, then deletes the bucket and returns success.
C9_OneIterationWhenPassedAndPlanned ==
    /\ (pc \in {"init", "iter_start"} /\ iteration = 0) =>
          (result = "running" /\ bucket # "deleted")
    /\ PassedAtStart =>
          /\ iteration = 0
          /\ result = "success" => (bucket = "deleted" /\ OneFullIteration)
          /\ (pc = "done" /\ NoCallFailed /\ log[1].outcome = "ok") =>
                (result = "success" /\ bucket = "deleted" /\ OneFullIteration)

C9_Witness ==
    /\ PassedAtStart
    /\ pc = "done"
    /\ result = "success"
    /\ OneFullIteration

\* C10: a failed benchmark command (non-zero exit status, or an error marker
\* in the log) is the last command of the run: the run has ended in a
\* failure, in the iteration of that command, and never returns success.
C10_FailedCallIsFatal ==
    \A i \in DOMAIN log :
        (IsCall(log[i]) /\ log[i].outcome # "ok") =>
            /\ i = Len(log)
            /\ pc = "done"
            /\ result = "failed"
            /\ iteration = log[i].iter
            /\ bucket = "created"

C10_Witness ==
    /\ result = "failed"
    /\ \E i \in DOMAIN log :
          /\ log[i].kind = "read"
          /\ log[i].outcome = "error_marker"
          /\ log[i].iter = 1

\* The exact quotient of the bit sequence a by d, rounded up.
CeilDivBits(a, d) ==
    LET qr == LongDiv(a, 0, d)
    IN  IF qr.r # 0 THEN IncBits(StripZeros(qr.q)) ELSE StripZeros(qr.q)

\* C6: for all positive byte targets and object sizes the sample count is
\* ceil(byte_target / object_size).
C6_SamplesAreCeiling ==
    fn_out.class \in CallKinds =>
        fn_out.samples = CeilDivBits(fn_in.target, fn_in.size)

\* C7: each byte target is floor(total_capacity * pct / 100) when the
\* percentage is set and total_capacity when it is not; the cleanup target
\* is floor(total_capacity * cleanup_pct / 100) when set and
\* floor(total_capacity * 90 / 100) when not.
C7_TargetsAreFloors ==
    /\ fn_out.class \in CallKinds =>
          fn_out.target = (IF fn_in.pct # 0 THEN (fn_in.total * fn_in.pct) \div 100
                           ELSE fn_in.total)
    /\ fn_out.class = "cleanup" =>
          fn_out.target = (IF fn_in.pct # 0 THEN (fn_in.total * fn_in.pct) \div 100
                           ELSE (fn_in.total * 90) \div 100)

\* The deadline checks of the history that ended the run.
Terminations ==
    {i \in DOMAIN log : log[i].kind = "deadline" /\ log[i].outcome = "terminate"}

\* C11: the bucket is force-deleted exactly once in a run that returns
\* success, by the deadline check that ends the run, and never in a run that
\* ends in a failure; it is never deleted while an iteration is still to run.
C11_BucketDeletedOnceAtTheEnd ==
    /\ bucket = "deleted" <=> result = "success"
    /\ bucket = "deleted" <=> Terminations = {Len(log)}
    /\ bucket # "deleted" => Terminations = {}
    /\ bucket = "deleted" => pc = "done"
    /\ result = "failed" => bucket = "created"
    /\ pc \in {"iter_start", "fill", "read", "drain", "cleanup", "deadline"} =>
          bucket = "created"

C11_Witness ==
    /\ bucket = "deleted"
    /\ result = "success"
    /\ iteration = 1
    /\ \E i \in DOMAIN log : log[i].kind = "deadline" /\ log[i].outcome = "continue"

\* What the event e adds to the ledger: a completed write call its bytes, a
\* delete call, completed or not, minus its bytes.
Contribution(e) ==
    IF e.kind = "write" /\ e.outcome = "ok" THEN e.size * e.samples
    ELSE IF e.kind = "delete" THEN 0 - e.size * e.samples
    ELSE 0

\* The last cleanup check of the history that deleted the objects, 0 if none.
LastPurge ==
    LET purges == {i \in DOMAIN log : log[i].kind = "cleanup" /\ log[i].outcome = "purged"}
    IN  IF purges = {} THEN 0
        ELSE CHOOSE i \in purges : \A j \in purges : j <= i

RECURSIVE SumOfContributions(_, _)
SumOfContributions(lo, hi) ==
    IF lo > hi THEN 0
    ELSE IF lo = hi THEN Contribution(log[lo])
    ELSE LET mid == (lo + hi) \div 2
         IN  SumOfContributions(lo, mid) + SumOfContributions(mid + 1, hi)

\* C12: in every reachable state the ledger is the sum of object_size *
\* samples over the write calls completed since the last cleanup (or the start
\* of the run) minus that sum over the delete calls issued since then; read
\* calls add nothing, and the value is not clamped at zero.
C12_LedgerIsWritesMinusDeletes ==
    total_written_data = SumOfContributions(LastPurge + 1, Len(log))

C12_Witness ==
    /\ total_written_data < 0
    /\ pc = "cleanup"
    /\ \E i \in DOMAIN log : log[i].kind = "read" /\ log[i].outcome = "ok"
    /\ \E i \in DOMAIN log : log[i].kind = "write" /\ log[i].outcome = "ok"

\* The place of an event kind in the order of one iteration.
Phase(kind) ==
    CASE kind = "plan" -> 0
      [] kind = "write" -> 1
      [] kind = "read" -> 2
      [] kind = "delete" -> 3
      [] kind = "cleanup" -> 4
      [] kind = "deadline" -> 5

\* The events of kind k in the iteration n.
EventsOf(n, k) ==
    {i \in DOMAIN log : log[i].iter = n /\ log[i].kind = k}

\* C15: within every iteration the events come in the order all writes, all
\* reads, all deletes, the cleanup check, the deadline check: no write follows
\* a read or delete of the same iteration, no read follows a delete; the
\* cleanup check is evaluated exactly once per iteration that gets to it,
\* after the last delete and right before the one deadline check.
C15_PhasesInOrder ==
    /\ \A i \in 1..(Len(log) - 1) :
          /\ log[i].iter <= log[i + 1].iter
          /\ log[i].iter = log[i + 1].iter =>
                Phase(log[i].kind) <= Phase(log[i + 1].kind)
    /\ \A n \in 0..iteration :
          /\ Cardinality(EventsOf(n, "cleanup")) <= 1
          /\ Cardinality(EventsOf(n, "deadline")) <= 1
          /\ \A i \in EventsOf(n, "deadline") :
                /\ i > 1
                /\ log[i - 1].kind = "cleanup"
                /\ log[i - 1].iter = n
          /\ \A i \in EventsOf(n, "cleanup") :
                /\ i > 1
                /\ log[i - 1].kind = "delete"
                /\ log[i - 1].iter = n
                /\ EventsOf(n, "write") # {}
                /\ EventsOf(n, "read") # {}
    /\ pc = "deadline" => EventsOf(iteration, "cleanup") # {}
    /\ pc = "cleanup" => EventsOf(iteration, "cleanup") = {}

C15_Witness ==
    /\ pc = "done"
    /\ result = "success"
    /\ iteration = 1
    /\ \E i, j \in EventsOf(1, "write") : i # j
    /\ \E i, j \in EventsOf(1, "delete") : i # j
    /\ EventsOf(1, "read") # {}
    /\ EventsOf(1, "cleanup") # {}

\* The deadline checks before the event i that started a further iteration.
ContinuesBefore(i) ==
    {j \in 1..(i - 1) : log[j].kind = "deadline" /\ log[j].outcome = "continue"}

\* C17: the iteration counter starts at 0, never decreases and grows by
\* exactly one with every completed iteration that does not end the run;
\* every command of iteration i carries the object-name prefix made from the
\* template with the value i, and the one object size drawn at the start of
\* iteration i.
C17_IterationCountsAndNames ==
    /\ [](/\ iteration = Cardinality(ContinuesBefore(Len(log) + 1))
          /\ \A i \in DOMAIN log :
                /\ log[i].iter = Cardinality(ContinuesBefore(i))
                /\ IsCall(log[i]) =>
                      /\ log[i].prefix = Format(object_prefix, log[i].iter)
                      /\ \E j \in 1..(i - 1) :
                            /\ log[j].kind = "plan"
                            /\ log[j].iter = log[i].iter
                            /\ log[j].size = log[i].size
                            /\ \A k \in (j + 1)..i : log[k].kind # "plan"
                            /\ \A k \in 1..(j - 1) : log[k].iter < log[i].iter)
    /\ [][ /\ iteration' \in {iteration, iteration + 1}
           /\ iteration' = iteration + 1 =>
                 (pc = "deadline" /\ pc' = "iter_start" /\ result' = "running") ]_vars

C17_Witness ==
    /\ iteration = 1
    /\ \E i, j \in DOMAIN log :
          /\ IsCall(log[i]) /\ log[i].iter = 0
          /\ IsCall(log[j]) /\ log[j].iter = 1
          /\ log[i].size # log[j].size
          /\ log[i].prefix # log[j].prefix
          /\ Len(log[j].prefix) = Len(object_prefix) - 1

\* p is a string prefix of s.
IsPrefix(p, s) ==
    Len(p) <= Len(s) /\ SubSeq(s, 1, Len(p)) = p

\* C16: when the cleanup deletes by prefix, the prefix it passes is a string
\* prefix of the object-name prefix of every benchmark command of every
\* iteration so far, so that the objects of all iterations are covered.
C16_CleanupPrefixCoversAllObjects ==
    \A i \in DOMAIN log :
        (log[i].kind = "cleanup" /\ log[i].outcome = "purged") =>
            \A j \in 1..(i - 1) :
                IsCall(log[j]) => IsPrefix(log[i].prefix, log[j].prefix)

\* C18: a write or delete call changes the ledger only after its command
\* succeeded; a call whose command fails leaves the ledger at its prior value.
C18_LedgerChangesOnlyOnSuccess ==
    [][ (pc \in {"fill", "drain"} /\ Len(log') = Len(log) + 1
            /\ log'[Len(log')].outcome # "ok")
          => total_written_data' = total_written_data ]_vars

\* The completed commands of kind k in the iteration n.
CompletedOf(n, k) ==
    {i \in EventsOf(n, k) : log[i].outcome = "ok"}

\* C19: in every iteration that passed the sample check (object size
\* positive, every sample count at least 1) each sub-loop ends after at most
\* two commands, and when it ends the bytes covered are strictly greater
\* than the byte target of the class.
C19_SubLoopsEndWithinTwoCalls ==
    /\ \A n \in 0..iteration : \A k \in CallKinds :
          Cardinality(EventsOf(n, k)) <= 2
    /\ pc \in {"read", "drain", "cleanup", "deadline"} =>
          /\ file_size > 0 /\ write_samples >= 1
          /\ written_data > storage_size_to_fill
          /\ written_data =
                file_size * write_samples * Cardinality(CompletedOf(iteration, "write"))
    /\ pc \in {"drain", "cleanup", "deadline"} =>
          /\ read_samples >= 1
          /\ read_data > storage_size_to_read
          /\ read_data =
                file_size * read_samples * Cardinality(CompletedOf(iteration, "read"))
    /\ pc \in {"cleanup", "deadline"} =>
          /\ delete_samples >= 1
          /\ deleted_data > storage_size_to_delete
          /\ deleted_data =
                file_size * delete_samples * Cardinality(CompletedOf(iteration, "delete"))

C19_Witness ==
    /\ pc = "cleanup"
    /\ iteration = 1
    /\ Cardinality(CompletedOf(1, "write")) = 2
    /\ Cardinality(CompletedOf(1, "read")) = 1
    /\ Cardinality(CompletedOf(1, "delete")) = 1
    /\ written_data = 2 * storage_size_to_fill

\* Every sample check of the history computed counts of at least 1 for an
\* object size above 0.
SamplesPositive ==
    \A i \in DOMAIN log :
        log[i].kind = "plan" =>
            (log[i].size > 0 /\ \A k \in 1..3 : log[i].samples[k] >= 1)

\* Every sample check of the history found the counts sufficient.
SamplesSufficient ==
    \A i \in DOMAIN log : log[i].kind = "plan" => log[i].outcome = "ok"

\* C14 as stated: with every command succeeding, a positive object size and
\* sample counts of at least 1, a run that has ended has force-deleted the
\* bucket and returned success.
C14_EndsInSuccess ==
    (pc = "done" /\ NoCallFailed /\ SamplesPositive) =>
        (result = "success" /\ bucket = "deleted")

\* C14 amended: once the clock is within the threshold of the deadline the
\* run comes to its end; it ends only at a deadline check, with the bucket
\* force-deleted and success, or in a fatal failure (a failed command or an
\* insufficient sample count); with every command succeeding and every
\* sample count at least the session count it ends with the bucket deleted
\* and success.
C14_EndsAtDeadlineOrFailure ==
    /\ [](pc = "done" =>
            /\ log # <<>>
            /\ \/ /\ result = "success" /\ bucket = "deleted"
                  /\ log[Len(log)].kind = "deadline"
                  /\ log[Len(log)].outcome = "terminate"
               \/ /\ result = "failed"
                  /\ \/ IsCall(log[Len(log)]) /\ log[Len(log)].outcome # "ok"
                     \/ log[Len(log)].kind = "plan"
                          /\ log[Len(log)].outcome = "config_error")
    /\ []((pc = "done" /\ NoCallFailed /\ SamplesSufficient) =>
            (result = "success" /\ bucket = "deleted"))
    /\ [](pc # "done" => result = "running")
    /\ (finish_time - now < MIN_DURATION) ~> (pc = "done")

C14_Witness ==
    /\ pc = "done"
    /\ result = "success"
    /\ bucket = "deleted"
    /\ NoCallFailed
    /\ iteration = 1
    /\ finish_time - start_time >= MIN_DURATION
    /\ finish_time - now < MIN_DURATION

\* C13: two drivers in one process each keep the bucket name, session count,
\* object size and byte targets they were constructed with for their whole
\* run, each creates and deletes only its own bucket, and a step of one
\* driver, its construction included, changes neither the ledger nor the
\* iteration counter of the other.
C13_DriversAreIndependent ==
    /\ [](\A i \in Drivers :
            inst[i].pc # "absent" =>
               /\ cls.bucket_name = inst[i].given.bucket_name
               /\ cls.sessions = inst[i].given.sessions
               /\ cls.object_size = inst[i].given.object_size
               /\ cls.storage_size_to_fill = inst[i].given.storage_size_to_fill
               /\ cls.storage_size_to_read = inst[i].given.storage_size_to_read
               /\ cls.storage_size_to_delete = inst[i].given.storage_size_to_delete
               /\ cls.size_to_cleanup_all_data = inst[i].given.size_to_cleanup_all_data
               /\ inst[i].created \in {0, inst[i].given.bucket_name}
               /\ inst[i].deleted \in {0, inst[i].given.bucket_name})
    /\ [][\A i \in Drivers :
            (inst[i].pc # "absent" /\ inst'[i] = inst[i]) =>
               /\ LedgerOf(i)' = LedgerOf(i)
               /\ IterationOf(i)' = IterationOf(i)]_vars

====
